---- MODULE Spec2Model ----
(***************************************************************************)
(* Model of the azure-collector pipeline: the queue consumer               *)
(* (QueueManager.receive_messages), the per-message processor              *)
(* (MessageProcessor.process_message over AzureClient.execute_api_calls),  *)
(* the BatchManager (add_to_batch / flush / start_periodic_flush / close)  *)
(* and the Collector loop that ties them together.                         *)
(*                                                                         *)
(* Conventions of the model                                                *)
(*  - A call runs its callee: `await f(...)` and a plain call `f(...)` are *)
(*    both modelled as executing the body of f.  Inside BatchManager.flush *)
(*    another task may run while write_batch is awaited (it sleeps between *)
(*    its retries) and between its return and the deletes; the deletes,    *)
(*    the clear and the baseline reset are plain calls and run in one go.  *)
(*  - Three tasks touch the BatchManager: "col" (the Collector loop),      *)
(*    "tmr" (start_periodic_flush) and "cls" (a caller of close()).        *)
(*    Nothing in the repository calls BatchManager.close(): Spec is the    *)
(*    program as it runs, SpecClose adds an outside caller of close().     *)
(*  - A queue message is identified by its id; its job id is the same      *)
(*    number.  correlation_id and timestamp are carried through unchanged  *)
(*    by the code and are left out of the records.                         *)
(*  - The field `outcomes` / `ran` of a response is a history field (what  *)
(*    each operation did); no action reads it.                             *)
(***************************************************************************)
EXTENDS Integers, Sequences, FiniteSets, Bags, TLC

\* ---------------------------------------------------------------- bounds
NMsg == 2          \* messages ever put on the queue
MaxOps == 2        \* largest api_requests list of a job
MaxFaults == 1     \* failed queue deletes in flush + lease expiries

\* ------------------------------------------------------ program constants
BatchSize == 2     \* settings.batch_size (scaled down)
BatchTimeout == 1  \* settings.batch_timeout (scaled down)
MaxAttempts == 3   \* with_retry(max_attempts=3) on receive_messages

Msgs == 1..NMsg
Poison == -1
Procs == {"col", "tmr", "cls"}

\* ------------------------------------------------------------ data model
NoneV == [k |-> "none", op |-> -1]          \* Python None
EmptyV == [k |-> "empty", op |-> -1]        \* Python {} (falsy)
SysErr == [k |-> "error", op |-> -1]        \* str(e) of a systemic failure
Payload(i) == [k |-> "payload", op |-> i]   \* response.json() of operation i
ErrV(i) == [k |-> "error", op |-> i]        \* str(e) of operation i

Truthy(v) == v.k \in {"payload", "error"}

NoRec == [message_id |-> 0, status |-> "none", data |-> <<>>, errors |-> <<>>,
          ran |-> FALSE, outcomes |-> <<>>]

\* AzureClient.execute_api_calls: hdr_ok is whether _get_headers succeeded,
\* outs[i] whether request i succeeded.  Never raises.
ExecuteApiCalls(m, n, hdr_ok, outs) ==
    LET results == [i \in 1..n |-> IF outs[i] THEN Payload(i - 1) ELSE EmptyV]
        errors == [i \in 1..n |-> IF outs[i] THEN NoneV ELSE ErrV(i - 1)]
    IN  IF ~hdr_ok
        THEN [message_id |-> m, status |-> "error", data |-> <<>>,
              errors |-> <<SysErr>>, ran |-> FALSE, outcomes |-> <<>>]
        ELSE [message_id |-> m,
              status |-> IF \A i \in 1..n : errors[i] = NoneV
                         THEN "success" ELSE "partial_failure",
              data |-> SelectSeq(results, Truthy),
              errors |-> SelectSeq(errors, Truthy),
              ran |-> TRUE, outcomes |-> outs]

Raised == [st |-> "raised", rec |-> NoRec]

\* MessageProcessor.process_message.  The lease renewal comes first; the
\* handler of `except Exception` builds CollectorResponse(results=[]), which
\* lacks the required field `data` and so raises itself; the success branch
\* reads result.results, which CollectorResponse does not have.
ProcessMessage(m, n, renew_ok, hdr_ok, outs) ==
    IF ~renew_ok
    THEN Raised
    ELSE LET result == ExecuteApiCalls(m, n, hdr_ok, outs)
         IN  IF result.status = "success"
             THEN Raised
             ELSE [st |-> "done", rec |-> result]

\* BatchManager.flush, lines 70-82: the rows of one result.
ExpandRows(rec) ==
    [i \in 1..Len(rec.data) |->
        [message_id |-> rec.message_id,
         status |-> rec.status,
         data |-> rec.data[i],
         errors |-> IF rec.errors # <<>> /\ i <= Len(rec.errors)
                    THEN rec.errors[i] ELSE NoneV,
         request_index |-> i - 1]]

\* BatchManager.flush, lines 68-82: the rows of the whole batch.
RECURSIVE SnowflakeData(_)
SnowflakeData(batch) ==
    IF batch = <<>> THEN <<>>
    ELSE ExpandRows(Head(batch).rec) \o SnowflakeData(Tail(batch))

RECURSIVE SeqToBag(_)
SeqToBag(s) ==
    IF s = <<>> THEN EmptyBag ELSE SetToBag({Head(s)}) (+) SeqToBag(Tail(s))

\* ----------------------------------------------------------------- state
VARIABLES
    content,          \* queue: payload of each message (Poison or number of requests)
    qstate,           \* queue: "visible", "leased" or "deleted"
    col_stop_event,   \* Collector._stop_event
    page,             \* Collector.process_messages: messages of the current page
    fut,              \* Collector.process_messages: the futures of the page
    current_batch,    \* BatchManager.current_batch
    time_since_flush, \* _should_flush: now - last_flush_time, counted up to BatchTimeout
    batch_lock,       \* BatchManager._batch_lock: its holder or "free"
    bm_stop_event,    \* BatchManager._stop_event
    sf_init,          \* SnowflakeManager._is_initialized
    sink,             \* rows of azure_config_data (a bag)
    pc,               \* where each task is
    fl,               \* the flush call in progress of each task
    slept,            \* time spent in asyncio.sleep(batch_timeout), up to BatchTimeout
    faults            \* failed flush deletes and lease expiries so far

qvars == <<content, qstate>>
cvars == <<col_stop_event, page, fut>>
svars == <<sf_init, sink>>
vars == <<content, qstate, col_stop_event, page, fut,
          current_batch, time_since_flush, batch_lock, bm_stop_event,
          sf_init, sink, pc, fl, slept, faults>>

IdleFrame == [phase |-> "idle", snap |-> <<>>, rows |-> <<>>]

\* flush, lines 64-82: the snapshot (zip) of the batch and the rows built from it.
NewFrame(batch) ==
    [phase |-> "write", snap |-> batch, rows |-> SnowflakeData(batch)]

NoFut == [st |-> "none", rec |-> NoRec]

Init ==
    /\ content \in [Msgs -> {Poison} \cup (0..MaxOps)]
    /\ qstate = [m \in Msgs |-> "visible"]
    /\ col_stop_event = FALSE
    /\ page = <<>>
    /\ fut = [m \in Msgs |-> NoFut]
    /\ current_batch = <<>>
    /\ time_since_flush = 0
    /\ batch_lock = "free"
    /\ bm_stop_event = FALSE
    /\ sf_init = FALSE
    /\ sink = EmptyBag
    /\ pc = [p \in Procs |-> CASE p = "col" -> "poll"
                               [] p = "tmr" -> "sleep"
                               [] OTHER -> "idle"]
    /\ fl = [p \in Procs |-> IdleFrame]
    /\ slept = 0
    /\ faults = 0

\* Variant of PcAfter in which the exception of the final flush leaves
\* Collector.shutdown: the shutdown does not complete.
PcAfterShutdownRaises(p, raised) ==
    CASE p = "col" /\ pc[p] = "add" -> IF raised THEN "poll" ELSE "page"
      [] p = "col" /\ pc[p] = "page" -> "poll"
      [] p = "col" /\ pc[p] = "final" -> IF raised THEN "crashed" ELSE "stopped"
      [] p = "col" /\ pc[p] = "final2" -> IF raised THEN "crashed" ELSE "stopped2"
      [] p = "tmr" -> "sleep"
      [] p = "cls" -> "closed"

\* Variant of PcAfter in which an exception of add_to_batch or of the forced
\* page flush leaves the loop of process_messages.
PcAfterLeavesLoop(p, raised) ==
    CASE p = "col" /\ pc[p] = "add" -> IF raised THEN "stopped" ELSE "page"
      [] p = "col" /\ pc[p] = "page" -> IF raised THEN "stopped" ELSE "poll"
      [] p = "col" /\ pc[p] = "final" -> "stopped"
      [] p = "col" /\ pc[p] = "final2" -> "stopped2"
      [] p = "tmr" -> "sleep"
      [] p = "cls" -> "closed"

\* ------------------------------------------------- where flush returns to
\* The caller's continuation after its flush call ended (raised or not).
\*   col/"add":   add_to_batch lines 37-49, then Collector lines 78-84
\*   col/"page":  Collector lines 80-84
\*   col/"final": Collector.shutdown lines 95-100
\*   tmr:         start_periodic_flush lines 102-108
\*   cls:         close lines 112-117
PcAfter(p, raised) ==
    CASE p = "col" /\ pc[p] = "add" -> IF raised THEN "poll" ELSE "page"
      [] p = "col" /\ pc[p] = "page" -> "poll"
      [] p = "col" /\ pc[p] = "final" -> "stopped"
      [] p = "col" /\ pc[p] = "final2" -> "stopped2"
      [] p = "tmr" -> "sleep"
      [] p = "cls" -> "closed"

\* `async with self._batch_lock` releases the lock however add_to_batch ends.
LockAfter(p) == IF p = "col" /\ pc[p] = "add" THEN "free" ELSE batch_lock

\* start_periodic_flush line 104: the next sleep starts.
SleptAfter(p) == IF p = "tmr" THEN 0 ELSE slept

\* close(): snowflake_manager.close() runs only when the flush did not raise.
SfAfter(p, raised, sf) == IF p = "cls" /\ ~raised THEN FALSE ELSE sf

\* ------------------------------------------------------------------ queue
\* The visibility timeout of a leased message runs out: it is delivered again.
Expire(m) ==
    /\ qstate[m] = "leased"
    /\ faults < MaxFaults
    /\ qstate' = [qstate EXCEPT ![m] = "visible"]
    /\ faults' = faults + 1
    /\ UNCHANGED <<content, cvars, current_batch, time_since_flush, batch_lock,
                   bm_stop_event, svars, pc, fl, slept>>

Visible == {m \in Msgs : qstate[m] = "visible"}

RECURSIVE SetToSeq(_)
SetToSeq(S) ==
    IF S = {} THEN <<>>
    ELSE LET m == CHOOSE x \in S : \A y \in S : x <= y
         IN  <<m>> \o SetToSeq(S \ {m})

\* QueueManager._parse_message returns None
IsPoison(m) == content[m] = Poison

\* Outcome of a receive attempt in which the queue did not answer.
RecvFail == -1

\* Variant of AttemptQueue that leases an unparseable message instead of
\* deleting it.
AttemptQueueKeepsPoison(q, o) ==
    LET got == {m \in Msgs : q[m] = "visible"}
    IN  [m \in Msgs |-> IF o = RecvFail \/ m \notin got THEN q[m] ELSE "leased"]

\* QueueManager.receive_messages lines 85-104, one attempt of the retried call
\* on queue state q.  o = RecvFail: the queue did not answer; o = 0: the
\* attempt succeeded; o = d: deleting the unparseable message d failed.
\* Messages are parsed in order and an unparseable one is deleted at once.
AttemptQueue(q, o) ==
    LET got == {m \in Msgs : q[m] = "visible"}
    IN  [m \in Msgs |->
            IF o = RecvFail \/ m \notin got THEN q[m]
            ELSE IF IsPoison(m) /\ (o = 0 \/ m < o) THEN "deleted"
            ELSE "leased"]

AttemptResult(q, o) ==
    SetToSeq({m \in Msgs : q[m] = "visible" /\ ~IsPoison(m)})

\* An attempt with outcome o is possible on queue state q.
AttemptPossible(q, o) ==
    o \in Msgs => q[o] = "visible" /\ IsPoison(o)

\* with_retry(max_attempts=3): the attempts os[1], os[2], ... run until one
\* succeeds.  The queue after the call, and whether os can happen from q.
RECURSIVE RetryQueue(_, _)
RetryQueue(q, os) ==
    IF Len(os) = 0 THEN q ELSE RetryQueue(AttemptQueue(q, Head(os)), Tail(os))

RECURSIVE RetryPossible(_, _)
RetryPossible(q, os) ==
    IF Len(os) = 0 THEN TRUE
    ELSE /\ AttemptPossible(q, Head(os))
         /\ Len(os) > 1 => Head(os) # 0
         /\ RetryPossible(AttemptQueue(q, Head(os)), Tail(os))

RECURSIVE QueueBefore(_, _)
QueueBefore(q, os) ==
    IF Len(os) <= 1 THEN q ELSE QueueBefore(AttemptQueue(q, Head(os)), Tail(os))

Outcomes == {RecvFail, 0} \cup Msgs
AttemptSeqs == UNION {[1..k -> Outcomes] : k \in 1..MaxAttempts}

\* Variant of Receive whose successful attempt also returns the parseable
\* messages that the abandoned attempts of the same call had received.
ReceiveKeepsAbandoned(os) ==
    LET ok == os[Len(os)] = 0
        result == IF ok THEN AttemptResult(qstate, 0) ELSE <<>>
    IN  /\ pc["col"] = "poll"
        /\ ~col_stop_event
        /\ RetryPossible(qstate, os)
        /\ ok \/ Len(os) = MaxAttempts
        /\ qstate' = RetryQueue(qstate, os)
        /\ IF result # <<>>
           THEN /\ page' = result
                /\ fut' = [m \in Msgs |-> IF \E i \in 1..Len(result) : result[i] = m
                                          THEN [st |-> "running", rec |-> NoRec]
                                          ELSE NoFut]
                /\ pc' = [pc EXCEPT !["col"] = "dispatch"]
           ELSE UNCHANGED <<page, fut, pc>>
        /\ UNCHANGED <<content, col_stop_event, current_batch, time_since_flush,
                       batch_lock, bm_stop_event, svars, fl, slept, faults>>

\* Variant of Receive in which the error of a receive call whose attempts are
\* exhausted ends the loop of process_messages.
ReceiveFailureLeavesLoop(os) ==
    LET ok == os[Len(os)] = 0
        result == IF ok THEN AttemptResult(QueueBefore(qstate, os), 0) ELSE <<>>
    IN  /\ pc["col"] = "poll"
        /\ ~col_stop_event
        /\ RetryPossible(qstate, os)
        /\ ok \/ Len(os) = MaxAttempts
        /\ qstate' = RetryQueue(qstate, os)
        /\ IF result # <<>>
           THEN /\ page' = result
                /\ fut' = [m \in Msgs |-> IF \E i \in 1..Len(result) : result[i] = m
                                          THEN [st |-> "running", rec |-> NoRec]
                                          ELSE NoFut]
                /\ pc' = [pc EXCEPT !["col"] = "dispatch"]
           ELSE /\ pc' = [pc EXCEPT !["col"] = IF ok THEN "poll" ELSE "stopped"]
                /\ UNCHANGED <<page, fut>>
        /\ UNCHANGED <<content, col_stop_event, current_batch, time_since_flush,
                       batch_lock, bm_stop_event, svars, fl, slept, faults>>

\* Collector.process_messages lines 47-56 with receive_messages: the call
\* returns the page of its last attempt, or raises after the third failure
\* (lines 82-84: logged, the loop starts over).
Receive(os) ==
    LET ok == os[Len(os)] = 0
        result == IF ok THEN AttemptResult(QueueBefore(qstate, os), 0) ELSE <<>>
    IN  /\ pc["col"] = "poll"
        /\ ~col_stop_event
        /\ RetryPossible(qstate, os)
        /\ ok \/ Len(os) = MaxAttempts
        /\ qstate' = RetryQueue(qstate, os)
        /\ IF result # <<>>
           THEN /\ page' = result
                /\ fut' = [m \in Msgs |-> IF \E i \in 1..Len(result) : result[i] = m
                                          THEN [st |-> "running", rec |-> NoRec]
                                          ELSE NoFut]
                /\ pc' = [pc EXCEPT !["col"] = "dispatch"]
           ELSE UNCHANGED <<page, fut, pc>>
        /\ UNCHANGED <<content, col_stop_event, current_batch, time_since_flush,
                       batch_lock, bm_stop_event, svars, fl, slept, faults>>

\* ------------------------------------------------------------- processing
\* One worker of the thread pool runs process_message for one message.
Work(m) ==
    /\ pc["col"] = "dispatch"
    /\ fut[m].st = "running"
    /\ \E renew_ok \in BOOLEAN, hdr_ok \in BOOLEAN, outs \in [1..content[m] -> BOOLEAN] :
          fut' = [fut EXCEPT ![m] = ProcessMessage(m, content[m], renew_ok, hdr_ok, outs)]
    /\ UNCHANGED <<qvars, col_stop_event, page, current_batch,
                   time_since_flush, batch_lock, bm_stop_event, svars, pc, fl,
                   slept, faults>>

\* The same worker in two steps, for the properties that are about the order
\* inside process_message.  First step, lines 50-54: the lease renewal
\* (update_message_visibility, retried inside); when it raises, process_message
\* raises without calling the executor.
Renewed == [st |-> "renewed", rec |-> NoRec]

UpdateMessageVisibility(m) ==
    /\ pc["col"] = "dispatch"
    /\ fut[m].st = "running"
    /\ \E renew_ok \in BOOLEAN :
          fut' = [fut EXCEPT ![m] = IF renew_ok THEN Renewed ELSE Raised]
    /\ UNCHANGED <<qvars, col_stop_event, page, current_batch,
                   time_since_flush, batch_lock, bm_stop_event, svars, pc, fl,
                   slept, faults>>

\* Variant of ExecuteJob that does not wait for the lease renewal.
ExecuteJobUnrenewed(m) ==
    /\ pc["col"] = "dispatch"
    /\ fut[m].st \in {"running", "renewed"}
    /\ \E hdr_ok \in BOOLEAN, outs \in [1..content[m] -> BOOLEAN] :
          fut' = [fut EXCEPT ![m] = ProcessMessage(m, content[m], TRUE, hdr_ok, outs)]
    /\ UNCHANGED <<qvars, col_stop_event, page, current_batch,
                   time_since_flush, batch_lock, bm_stop_event, svars, pc, fl,
                   slept, faults>>

\* Variant of ExecuteJob that deletes the queue message when the job is done.
ExecuteJobDeletes(m) ==
    /\ pc["col"] = "dispatch"
    /\ fut[m].st = "renewed"
    /\ \E hdr_ok \in BOOLEAN, outs \in [1..content[m] -> BOOLEAN] :
          fut' = [fut EXCEPT ![m] = ProcessMessage(m, content[m], TRUE, hdr_ok, outs)]
    /\ qstate' = [qstate EXCEPT ![m] = "deleted"]
    /\ UNCHANGED <<content, col_stop_event, page, current_batch,
                   time_since_flush, batch_lock, bm_stop_event, svars, pc, fl,
                   slept, faults>>

\* Second step, lines 56-81: execute_api_calls and what process_message makes
\* of its result.
ExecuteJob(m) ==
    /\ pc["col"] = "dispatch"
    /\ fut[m].st = "renewed"
    /\ \E hdr_ok \in BOOLEAN, outs \in [1..content[m] -> BOOLEAN] :
          fut' = [fut EXCEPT ![m] = ProcessMessage(m, content[m], TRUE, hdr_ok, outs)]
    /\ UNCHANGED <<qvars, col_stop_event, page, current_batch,
                   time_since_flush, batch_lock, bm_stop_event, svars, pc, fl,
                   slept, faults>>

\* Variant of Results that pairs the records in the order they are there with
\* the messages from the start of the page: a worker that raised shifts the
\* records of the later workers onto earlier messages.
ResultsShifted(pg) ==
    LET done == SelectSeq(pg, LAMBDA m : fut[m].st = "done")
    IN  [i \in 1..Len(done) |-> [rec |-> fut[done[i]].rec, msg |-> pg[i]]]

\* MessageProcessor.process_messages_batch lines 107-120 (called by nothing
\* in the repository): gather keeps the order of the tasks, zip pairs each
\* outcome with the queue message of its task, exceptions are skipped.
ProcessMessagesBatch(pg) ==
    LET idx == {i \in 1..Len(pg) : fut[pg[i]].st = "done"}
        pos == SetToSeq(idx)
    IN  [k \in 1..Len(pos) |-> [rec |-> fut[pg[pos[k]]].rec, msg |-> pg[pos[k]]]]

\* Variant of Results in which the exception of a future ends the collection:
\* the results of the workers submitted after it are lost.
RECURSIVE ResultsStopAtRaise(_)
ResultsStopAtRaise(pg) ==
    IF pg = <<>> \/ fut[Head(pg)].st = "raised" THEN <<>>
    ELSE (IF fut[Head(pg)].st = "done"
          THEN <<[rec |-> fut[Head(pg)].rec, msg |-> Head(pg)]>>
          ELSE <<>>) \o ResultsStopAtRaise(Tail(pg))

\* Collector.process_messages lines 67-75: the results of the page, in
\* submission order; a future that raised contributes nothing.
RECURSIVE Results(_)
Results(pg) ==
    IF pg = <<>> THEN <<>>
    ELSE (IF fut[Head(pg)].st = "done"
          THEN <<[rec |-> fut[Head(pg)].rec, msg |-> Head(pg)]>>
          ELSE <<>>) \o Results(Tail(pg))

\* add_to_batch lines 44-49: the batch after the extend.
Extended(batch, results) == batch \o results

\* Variant of CollectAndAdd that does not wait for the workers of the page:
\* the results that are ready are added and the loop goes on while the other
\* workers are still running.
CollectAndAddNoBarrier ==
    LET results == Results(page)
        batch == Extended(current_batch, results)
    IN  /\ pc["col"] = "dispatch"
        /\ batch_lock = "free"
        /\ page' = <<>>
        /\ fut' = [m \in Msgs |-> IF fut[m].st \in {"running", "renewed"} THEN fut[m] ELSE NoFut]
        /\ IF results = <<>>
           THEN /\ pc' = [pc EXCEPT !["col"] = "poll"]
                /\ UNCHANGED <<current_batch, batch_lock, fl>>
           ELSE /\ current_batch' = batch
                /\ IF Len(batch) >= BatchSize
                   THEN /\ pc' = [pc EXCEPT !["col"] = "add"]
                        /\ batch_lock' = "col"
                        /\ fl' = [fl EXCEPT !["col"] = NewFrame(batch)]
                   ELSE /\ pc' = [pc EXCEPT !["col"] = "page"]
                        /\ UNCHANGED <<batch_lock, fl>>
        /\ UNCHANGED <<qvars, col_stop_event, time_since_flush,
                       bm_stop_event, svars, slept, faults>>

\* Collector lines 67-79 and add_to_batch lines 34-49: collect the results
\* and add them; the size check and the snapshot of the forced flush follow
\* the extend without an await.
CollectAndAdd ==
    LET results == Results(page)
        batch == Extended(current_batch, results)
    IN  /\ pc["col"] = "dispatch"
        /\ \A m \in Msgs : fut[m].st \notin {"running", "renewed"}
        /\ batch_lock = "free"
        /\ page' = <<>>
        /\ fut' = [m \in Msgs |-> NoFut]
        /\ IF results = <<>>
           THEN /\ pc' = [pc EXCEPT !["col"] = "poll"]
                /\ UNCHANGED <<current_batch, batch_lock, fl>>
           ELSE /\ current_batch' = batch
                /\ IF Len(batch) >= BatchSize
                   THEN /\ pc' = [pc EXCEPT !["col"] = "add"]
                        /\ batch_lock' = "col"
                        /\ fl' = [fl EXCEPT !["col"] = NewFrame(batch)]
                   ELSE /\ pc' = [pc EXCEPT !["col"] = "page"]
                        /\ UNCHANGED <<batch_lock, fl>>
        /\ UNCHANGED <<qvars, col_stop_event, time_since_flush,
                       bm_stop_event, svars, slept, faults>>

\* Variant of FlushCall whose call on an empty batch initializes the sink
\* connection and resets the baseline.
FlushCallEmptyTouches ==
    /\ pc["col"] \in {"page", "final", "final2"}
    /\ fl["col"].phase = "idle"
    /\ IF current_batch = <<>>
       THEN /\ pc' = [pc EXCEPT !["col"] = PcAfter("col", FALSE)]
            /\ sf_init' = TRUE
            /\ time_since_flush' = 0
            /\ UNCHANGED <<fl, sink>>
       ELSE /\ fl' = [fl EXCEPT !["col"] = NewFrame(current_batch)]
            /\ UNCHANGED <<pc, svars, time_since_flush>>
    /\ UNCHANGED <<qvars, cvars, current_batch, batch_lock,
                   bm_stop_event, slept, faults>>

\* ------------------------------------------------------------------ flush
\* flush lines 59-82 called by the Collector (page-forced or final flush).
FlushCall ==
    /\ pc["col"] \in {"page", "final", "final2"}
    /\ fl["col"].phase = "idle"
    /\ IF current_batch = <<>>
       THEN /\ pc' = [pc EXCEPT !["col"] = PcAfter("col", FALSE)]
            /\ UNCHANGED fl
       ELSE /\ fl' = [fl EXCEPT !["col"] = NewFrame(current_batch)]
            /\ UNCHANGED pc
    /\ UNCHANGED <<qvars, cvars, current_batch, time_since_flush, batch_lock,
                   bm_stop_event, svars, slept, faults>>

\* Variant of FlushWrite whose failure path clears the batch and resets the
\* baseline.
FlushWriteDropsBatch(p) ==
    /\ fl[p].phase = "write"
    /\ \E ok \in BOOLEAN, init_ok \in BOOLEAN :
          /\ ~ok => (~init_ok /\ ~sf_init) \/ (init_ok /\ fl[p].rows # <<>>)
          /\ ok => init_ok
          /\ IF ok
             THEN /\ sink' = sink (+) SeqToBag(fl[p].rows)
                  /\ sf_init' = TRUE
                  /\ fl' = [fl EXCEPT ![p].phase = "delete"]
                  /\ UNCHANGED <<pc, batch_lock, slept, current_batch, time_since_flush>>
             ELSE /\ sf_init' = init_ok
                  /\ fl' = [fl EXCEPT ![p] = IdleFrame]
                  /\ pc' = [pc EXCEPT ![p] = PcAfter(p, TRUE)]
                  /\ batch_lock' = LockAfter(p)
                  /\ slept' = SleptAfter(p)
                  /\ current_batch' = <<>>
                  /\ time_since_flush' = 0
                  /\ UNCHANGED sink
    /\ UNCHANGED <<qvars, cvars, bm_stop_event, faults>>

\* flush lines 84-87 and 96-98: initialize() and write_batch() (retried inside).
\*   ok: the rows were inserted.  Otherwise the call raised: initialize() can
\*   fail only when the connection is not initialized, write_batch() returns at
\*   once on an empty row list.
FlushWrite(p) ==
    /\ fl[p].phase = "write"
    /\ \E ok \in BOOLEAN, init_ok \in BOOLEAN :
          /\ ~ok => (~init_ok /\ ~sf_init) \/ (init_ok /\ fl[p].rows # <<>>)
          /\ ok => init_ok
          /\ IF ok
             THEN /\ sink' = sink (+) SeqToBag(fl[p].rows)
                  /\ sf_init' = TRUE
                  /\ fl' = [fl EXCEPT ![p].phase = "delete"]
                  /\ UNCHANGED <<pc, batch_lock, slept>>
             ELSE /\ sf_init' = init_ok
                  /\ fl' = [fl EXCEPT ![p] = IdleFrame]
                  /\ pc' = [pc EXCEPT ![p] = PcAfter(p, TRUE)]
                  /\ batch_lock' = LockAfter(p)
                  /\ slept' = SleptAfter(p)
                  /\ UNCHANGED sink
    /\ UNCHANGED <<qvars, cvars, current_batch, time_since_flush, bm_stop_event, faults>>

\* flush lines 89-91: the queue after delete_message ran for the first k
\* messages of the snapshot.
RECURSIVE DeleteFirst(_, _, _)
DeleteFirst(q, snap, k) ==
    IF k = 0 THEN q
    ELSE DeleteFirst([q EXCEPT ![Head(snap).msg] = "deleted"], Tail(snap), k - 1)

\* Variant of FlushDelete that does not wait for the sink write: it deletes
\* and clears as soon as the snapshot is taken.
FlushDeleteBeforeWrite(p, fail_at) ==
    LET n == Len(fl[p].snap)
        raised == fail_at # 0
        done == IF raised THEN fail_at - 1 ELSE n
    IN  /\ fl[p].phase = "write"
        /\ fail_at <= n
        /\ raised => faults < MaxFaults
        /\ qstate' = DeleteFirst(qstate, fl[p].snap, done)
        /\ faults' = IF raised THEN faults + 1 ELSE faults
        /\ current_batch' = IF raised THEN current_batch ELSE <<>>
        /\ time_since_flush' = IF raised THEN time_since_flush ELSE 0
        /\ fl' = [fl EXCEPT ![p] = IdleFrame]
        /\ pc' = [pc EXCEPT ![p] = PcAfter(p, raised)]
        /\ batch_lock' = LockAfter(p)
        /\ slept' = SleptAfter(p)
        /\ sf_init' = SfAfter(p, raised, sf_init)
        /\ UNCHANGED <<content, cvars, bm_stop_event, sink>>

\* Variant of FlushDelete whose normal return leaves the batch and the
\* baseline as they were.
FlushDeleteKeepsBatch(p, fail_at) ==
    LET n == Len(fl[p].snap)
        raised == fail_at # 0
        done == IF raised THEN fail_at - 1 ELSE n
    IN  /\ fl[p].phase = "delete"
        /\ fail_at <= n
        /\ raised => faults < MaxFaults
        /\ qstate' = DeleteFirst(qstate, fl[p].snap, done)
        /\ faults' = IF raised THEN faults + 1 ELSE faults
        /\ UNCHANGED <<current_batch, time_since_flush>>
        /\ fl' = [fl EXCEPT ![p] = IdleFrame]
        /\ pc' = [pc EXCEPT ![p] = PcAfter(p, raised)]
        /\ batch_lock' = LockAfter(p)
        /\ slept' = SleptAfter(p)
        /\ sf_init' = SfAfter(p, raised, sf_init)
        /\ UNCHANGED <<content, cvars, bm_stop_event, sink>>

\* Variant of FlushDelete in which the delete of a message that is gone
\* already raises out of delete_message: the flush stops at the first such
\* message of its snapshot and keeps the batch.
FlushDeleteGoneRaises(p, fail_at) ==
    LET n == Len(fl[p].snap)
        gone == {k \in 1..n : qstate[fl[p].snap[k].msg] = "deleted"}
        first == IF gone = {} THEN 0 ELSE CHOOSE k \in gone : \A j \in gone : k <= j
        stop == IF fail_at # 0 /\ (first = 0 \/ fail_at < first) THEN fail_at ELSE first
        raised == stop # 0
        done == IF raised THEN stop - 1 ELSE n
    IN  /\ fl[p].phase = "delete"
        /\ fail_at <= n
        /\ stop = fail_at /\ fail_at # 0 => faults < MaxFaults
        /\ qstate' = DeleteFirst(qstate, fl[p].snap, done)
        /\ faults' = IF stop = fail_at /\ fail_at # 0 THEN faults + 1 ELSE faults
        /\ current_batch' = IF raised THEN current_batch ELSE <<>>
        /\ time_since_flush' = IF raised THEN time_since_flush ELSE 0
        /\ fl' = [fl EXCEPT ![p] = IdleFrame]
        /\ pc' = [pc EXCEPT ![p] = PcAfter(p, raised)]
        /\ batch_lock' = LockAfter(p)
        /\ slept' = SleptAfter(p)
        /\ sf_init' = SfAfter(p, raised, sf_init)
        /\ UNCHANGED <<content, cvars, bm_stop_event, sink>>

\* Variant of FlushDelete that goes on deleting after a delete has failed:
\* every message of the snapshot but the failing one is deleted before the
\* flush raises.
RECURSIVE DeleteAllBut(_, _, _)
DeleteAllBut(q, snap, k) ==
    IF snap = <<>> THEN q
    ELSE DeleteAllBut(IF k = 1 THEN q ELSE [q EXCEPT ![Head(snap).msg] = "deleted"],
                      Tail(snap), k - 1)

FlushDeleteSkipsFailed(p, fail_at) ==
    LET n == Len(fl[p].snap)
        raised == fail_at # 0
    IN  /\ fl[p].phase = "delete"
        /\ fail_at <= n
        /\ raised => faults < MaxFaults
        /\ qstate' = DeleteAllBut(qstate, fl[p].snap, fail_at)
        /\ faults' = IF raised THEN faults + 1 ELSE faults
        /\ current_batch' = IF raised THEN current_batch ELSE <<>>
        /\ time_since_flush' = IF raised THEN time_since_flush ELSE 0
        /\ fl' = [fl EXCEPT ![p] = IdleFrame]
        /\ pc' = [pc EXCEPT ![p] = PcAfter(p, raised)]
        /\ batch_lock' = LockAfter(p)
        /\ slept' = SleptAfter(p)
        /\ sf_init' = SfAfter(p, raised, sf_init)
        /\ UNCHANGED <<content, cvars, bm_stop_event, sink>>

\* flush lines 89-94 and 96-98: delete_message for each message of the
\* snapshot in order (plain calls, no other task runs in between); then the
\* batch is cleared and the baseline reset.
\*   fail_at = 0: every delete returned (also for a message gone already);
\*   fail_at = k: the k-th delete raised after its retries, flush raises.
FlushDelete(p, fail_at) ==
    LET n == Len(fl[p].snap)
        raised == fail_at # 0
        done == IF raised THEN fail_at - 1 ELSE n
    IN  /\ fl[p].phase = "delete"
        /\ fail_at <= n
        /\ raised => faults < MaxFaults
        /\ qstate' = DeleteFirst(qstate, fl[p].snap, done)
        /\ faults' = IF raised THEN faults + 1 ELSE faults
        /\ current_batch' = IF raised THEN current_batch ELSE <<>>
        /\ time_since_flush' = IF raised THEN time_since_flush ELSE 0
        /\ fl' = [fl EXCEPT ![p] = IdleFrame]
        /\ pc' = [pc EXCEPT ![p] = PcAfter(p, raised)]
        /\ batch_lock' = LockAfter(p)
        /\ slept' = SleptAfter(p)
        /\ sf_init' = SfAfter(p, raised, sf_init)
        /\ UNCHANGED <<content, cvars, bm_stop_event, sink>>

\* ------------------------------------------------------------------ timer
\* Variant of _should_flush that knows the size trigger only.
ShouldFlushSizeOnly ==
    Len(current_batch) >= BatchSize

\* BatchManager._should_flush
ShouldFlush ==
    \/ Len(current_batch) >= BatchSize
    \/ time_since_flush >= BatchTimeout

\* start_periodic_flush lines 102-106: the sleep ends.
TimerWake ==
    /\ pc["tmr"] = "sleep"
    /\ slept >= BatchTimeout
    /\ IF bm_stop_event
       THEN /\ pc' = [pc EXCEPT !["tmr"] = "done"]
            /\ UNCHANGED <<fl, slept>>
       ELSE IF ShouldFlush /\ current_batch # <<>>
       THEN /\ pc' = [pc EXCEPT !["tmr"] = "flush"]
            /\ fl' = [fl EXCEPT !["tmr"] = NewFrame(current_batch)]
            /\ UNCHANGED slept
       ELSE /\ slept' = 0
            /\ UNCHANGED <<pc, fl>>
    /\ UNCHANGED <<qvars, cvars, current_batch, time_since_flush, batch_lock,
                   bm_stop_event, svars, faults>>

Min(a, b) == IF a < b THEN a ELSE b

\* Time passes by one unit.
Tick ==
    /\ time_since_flush < BatchTimeout \/ (pc["tmr"] = "sleep" /\ slept < BatchTimeout)
    /\ time_since_flush' = Min(BatchTimeout, time_since_flush + 1)
    /\ slept' = IF pc["tmr"] = "sleep" THEN Min(BatchTimeout, slept + 1) ELSE slept
    /\ UNCHANGED <<qvars, cvars, current_batch, batch_lock, bm_stop_event, svars,
                   pc, fl, faults>>

\* ------------------------------------------------------------------ close
\* BatchManager.close lines 112-117.
Close ==
    /\ pc["cls"] = "idle"
    /\ bm_stop_event' = TRUE
    /\ IF current_batch = <<>>
       THEN /\ pc' = [pc EXCEPT !["cls"] = "closed"]
            /\ sf_init' = FALSE
            /\ UNCHANGED fl
       ELSE /\ pc' = [pc EXCEPT !["cls"] = "flush"]
            /\ fl' = [fl EXCEPT !["cls"] = NewFrame(current_batch)]
            /\ UNCHANGED sf_init
    /\ UNCHANGED <<qvars, cvars, current_batch, time_since_flush, batch_lock, sink,
                   slept, faults>>

\* --------------------------------------------------------------- shutdown
\* The loop is left at the top of an iteration and Collector.shutdown runs
\* (lines 86-93): the stop event is set, the pool has no work in flight.
Shutdown ==
    /\ pc["col"] = "poll"
    /\ col_stop_event' = TRUE
    /\ pc' = [pc EXCEPT !["col"] = "final"]
    /\ UNCHANGED <<qvars, page, fut, current_batch, time_since_flush, batch_lock,
                   bm_stop_event, svars, fl, slept, faults>>

\* Collector.shutdown is called a second time on the stopped Collector (the
\* `finally` of start after a shutdown from outside, or the __exit__ of the
\* end-to-end test after start returned): the stop event is set again, the
\* pool is already shut down, and the final flush (lines 95-98) runs again.
ShutdownAgain ==
    /\ pc["col"] = "stopped"
    /\ col_stop_event' = TRUE
    /\ pc' = [pc EXCEPT !["col"] = "final2"]
    /\ UNCHANGED <<qvars, page, fut, current_batch, time_since_flush, batch_lock,
                   bm_stop_event, svars, fl, slept, faults>>

Next ==
    \/ \E m \in Msgs : Expire(m)
    \/ \E os \in AttemptSeqs : Receive(os)
    \/ \E m \in Msgs : Work(m)
    \/ CollectAndAdd
    \/ FlushCall
    \/ \E p \in Procs : FlushWrite(p)
    \/ \E p \in Procs, fail_at \in 0..NMsg + MaxFaults : FlushDelete(p, fail_at)
    \/ TimerWake
    \/ Tick
    \/ Shutdown

Spec == Init /\ [][Next]_vars

NextClose ==
    \/ Next
    \/ Close

SpecClose == Init /\ [][NextClose]_vars

NextReshutdown ==
    \/ Next
    \/ ShutdownAgain

SpecReshutdown == Init /\ [][NextReshutdown]_vars

\* The program with the workers in two steps.
NextProcess ==
    \/ \E m \in Msgs : Expire(m)
    \/ \E os \in AttemptSeqs : Receive(os)
    \/ \E m \in Msgs : UpdateMessageVisibility(m)
    \/ \E m \in Msgs : ExecuteJob(m)
    \/ CollectAndAdd
    \/ FlushCall
    \/ \E p \in Procs : FlushWrite(p)
    \/ \E p \in Procs, fail_at \in 0..NMsg + MaxFaults : FlushDelete(p, fail_at)
    \/ TimerWake
    \/ Tick
    \/ Shutdown

SpecProcess == Init /\ [][NextProcess]_vars

\* The sink write of p's flush succeeds (flush lines 86-87 return).
FlushWriteOk(p) == FlushWrite(p) /\ fl'[p].phase = "delete"

\* The timer task is scheduled: time passes, its sleep ends, and the calls of
\* its flush return; a healthy sink lets a write that is tried again and
\* again succeed, and a healthy queue lets the deletes succeed.
TimerFairness ==
    /\ WF_vars(Tick)
    /\ WF_vars(TimerWake)
    /\ SF_vars(FlushWriteOk("tmr"))
    /\ WF_vars(FlushDelete("tmr", 0))

FairSpec == Spec /\ TimerFairness

\* The thread that runs Collector.shutdown is scheduled: its flush call is
\* made, and the sink write and the deletes of its flush return or raise
\* (their retries are bounded).
ShutdownFairness ==
    /\ WF_vars(FlushCall)
    /\ WF_vars(FlushWrite("col"))
    /\ WF_vars(\E fail_at \in 0..NMsg + MaxFaults : FlushDelete("col", fail_at))

FairShutdownSpec == Spec /\ ShutdownFairness

TypeOK ==
    /\ qstate \in [Msgs -> {"visible", "leased", "deleted"}]
    /\ pc["col"] \in {"poll", "dispatch", "add", "page", "final", "stopped",
                    "final2", "stopped2"}
    /\ pc["tmr"] \in {"sleep", "flush", "done"}
    /\ pc["cls"] \in {"idle", "flush", "closed"}
    /\ \A p \in Procs : fl[p].phase \in {"idle", "write", "delete"}
    /\ time_since_flush \in 0..BatchTimeout
    /\ slept \in 0..BatchTimeout
    /\ faults \in 0..MaxFaults

\* ================================================================ claims
\* Shorthands used by the properties below.
SinkRows == BagToSet(sink)
Active(p) == fl[p].phase # "idle"
InSnap(p, m) == \E k \in 1..Len(fl[p].snap) : fl[p].snap[k].msg = m
InBatch(m) == \E k \in 1..Len(current_batch) : current_batch[k].msg = m
InPage(m) == \E k \in 1..Len(page) : page[k] = m
NewlyDeleted(m) == qstate[m] # "deleted" /\ qstate'[m] = "deleted"

\* C1: every parseable job whose queue message is deleted has at least one
\* row with its job id in the sink.
C1_DeletedJobInSink ==
    \A m \in Msgs :
        (~IsPoison(m) /\ qstate[m] = "deleted")
            => \E row \in SinkRows : row.message_id = m

\* C2: a batched message is deleted only by a flush attempt that holds it in
\* its snapshot and whose own sink write has already returned success (the
\* attempt is past the write and its rows are in the sink).
C2_DeleteAfterWrite ==
    [][\A m \in Msgs :
          (~IsPoison(m) /\ NewlyDeleted(m))
              => \E p \in Procs :
                    /\ InSnap(p, m)
                    /\ fl[p].phase = "delete"
                    /\ fl'[p].phase = "idle"
                    /\ SeqToBag(fl[p].rows) \sqsubseteq sink]_vars

\* C2 witness: a flush deleted a job's message whose rows are in the sink.
C2_Witness ==
    \E m \in Msgs :
        /\ ~IsPoison(m)
        /\ qstate[m] = "deleted"
        /\ \E row \in SinkRows : row.message_id = m

\* A flush attempt of p ends because initialize() or write_batch() raised.
WriteRaised(p) == fl[p].phase = "write" /\ fl'[p].phase = "idle"

C4_BatchBound ==
    pc["col"] \notin {"dispatch", "add"} => Len(current_batch) <= BatchSize

\* C5: a flush that is past its sink write has written, for every
\* status=error record of its snapshot, a row with the record's job id,
\* status and error message.
C5_ErrorRecordRow ==
    \A p \in Procs :
        fl[p].phase = "delete"
            => \A k \in 1..Len(fl[p].snap) :
                  fl[p].snap[k].rec.status = "error"
                      => \E row \in SinkRows :
                            /\ row.message_id = fl[p].snap[k].rec.message_id
                            /\ row.status = "error"
                            /\ row.errors = SysErr

\* C6: process_message never raises to its caller: no future of the page
\* ends with an exception.
C6_NeverRaises ==
    \A m \in Msgs : fut[m].st # "raised"

\* What each operation of a returned record did.
Succeeded(rec) == {i \in 1..Len(rec.outcomes) : rec.outcomes[i]}
Failed(rec) == {i \in 1..Len(rec.outcomes) : ~rec.outcomes[i]}

\* C7: the status of a returned record is success iff no operation failed,
\* partial_failure iff some succeeded and some failed, error iff the
\* executor never ran the operations.
C7_StatusDerivation ==
    \A m \in Msgs :
        fut[m].st = "done"
            => LET rec == fut[m].rec
               IN  /\ rec.status = "success" <=> (rec.ran /\ Failed(rec) = {})
                   /\ rec.status = "partial_failure"
                         <=> (rec.ran /\ Succeeded(rec) # {} /\ Failed(rec) # {})
                   /\ rec.status = "error" <=> ~rec.ran

\* C8: the rows a flush builds for a record whose operations ran are one
\* per operation, numbered 0..n-1; row i carries the payload of operation i
\* and no error if it succeeded, the error of operation i if it failed.
C8_RowPerOutcome ==
    \A p \in Procs :
        Active(p)
            => \A k \in 1..Len(fl[p].snap) :
                  LET rec == fl[p].snap[k].rec
                      rows == ExpandRows(rec)
                  IN  rec.ran
                        => /\ Len(rows) = Len(rec.outcomes)
                           /\ \A i \in 1..Len(rows) :
                                 /\ rows[i].request_index = i - 1
                                 /\ rec.outcomes[i]
                                       => /\ rows[i].data = Payload(i - 1)
                                          /\ rows[i].errors = NoneV
                                 /\ ~rec.outcomes[i] => rows[i].errors = ErrV(i - 1)

\* C9 as stated: every unparseable message that was received is deleted.
C9_ReceivedPoisonDeleted ==
    \A m \in Msgs :
        (IsPoison(m) /\ qstate[m] # "visible") => qstate[m] = "deleted"

\* An unparseable message is nowhere in the pipeline.
PoisonNowhere ==
    \A m \in Msgs :
        IsPoison(m)
            => /\ ~InPage(m)
               /\ fut[m] = NoFut
               /\ ~InBatch(m)
               /\ \A p \in Procs : ~InSnap(p, m)
               /\ \A row \in SinkRows : row.message_id # m

\* C9: an unparseable message is never handed to a worker, batched or
\* written; a receive call that returns messages has deleted every
\* unparseable message it received and returns every parseable one; an
\* unparseable message is left leased only when its delete failed, and then
\* the call returns no message.
C9_PoisonHandling ==
    /\ []PoisonNowhere
    /\ [][/\ (page = <<>> /\ page' # <<>>)
              => \A m \in Msgs :
                    qstate[m] = "visible"
                        => IF IsPoison(m)
                           THEN qstate'[m] = "deleted"
                           ELSE qstate'[m] = "leased" /\ (\E k \in 1..Len(page') : page'[k] = m)
          /\ \A m \in Msgs :
                (IsPoison(m) /\ qstate[m] = "visible" /\ qstate'[m] = "leased")
                    => page' = <<>> /\ pc'["col"] = "poll"]_vars

\* C9 witness: a receive call deleted an unparseable message and returned
\* the parseable message of the same page.
C9_Witness ==
    /\ pc["col"] = "dispatch"
    /\ page # <<>>
    /\ \E m \in Msgs : IsPoison(m) /\ qstate[m] = "deleted"

\* C10: at most one flush is in progress, and the batch is what the flush
\* in progress took as its snapshot (no add changed it since).
C10_MutualExclusion ==
    /\ Cardinality({p \in Procs : Active(p)}) <= 1
    /\ \A p \in Procs : Active(p) => current_batch = fl[p].snap

\* A flush attempt of p on a non-empty batch returns normally: it is past
\* its sink write and none of its deletes raised.
FlushReturns(p) ==
    /\ fl[p].phase = "delete"
    /\ fl'[p].phase = "idle"
    /\ faults' = faults

\* C11: when a flush of a non-empty batch returns normally, the rows of its
\* batch are in the sink, every message of its batch is deleted, the
\* in-memory batch is empty and the flush-timer baseline is reset.
C11_FlushSuccessPostState ==
    [][\A p \in Procs :
          FlushReturns(p)
              => /\ SeqToBag(fl[p].rows) \sqsubseteq sink'
                 /\ \A k \in 1..Len(fl[p].snap) : qstate'[fl[p].snap[k].msg] = "deleted"
                 /\ current_batch' = <<>>
                 /\ time_since_flush' = 0]_vars

\* C11 witness: a flush has just returned normally: nothing is in progress,
\* the batch is empty, the baseline fresh, and a job with rows in the sink
\* has its message deleted.
C11_Witness ==
    /\ \A p \in Procs : ~Active(p)
    /\ current_batch = <<>>
    /\ time_since_flush = 0
    /\ sink # EmptyBag
    /\ \E m \in Msgs : ~IsPoison(m) /\ qstate[m] = "deleted"

\* C12: entries retained after a failed flush (the Collector is back at the
\* top of its loop with a non-empty batch) leave the batch only through a
\* flush that took exactly them as its snapshot, i.e. one that attempted to
\* write all of them, in order.
C12_RetainedEntriesRetried ==
    [][(pc["col"] = "poll" /\ current_batch # <<>> /\ current_batch' # current_batch)
          => \E p \in Procs : FlushReturns(p) /\ fl[p].snap = current_batch]_vars

\* One entry, of message m, is pending: nothing is being received, processed
\* or flushed, and the timer is running.
OnePending(m) ==
    /\ Len(current_batch) = 1
    /\ current_batch[1].msg = m
    /\ Visible = {}
    /\ page = <<>>
    /\ pc["col"] \in {"poll", "stopped"}
    /\ \A p \in Procs : ~Active(p)
    /\ pc["tmr"] = "sleep"
    /\ ~bm_stop_event

\* The entry of message m is committed: its message is deleted and it has
\* left the batch (a message is deleted only by a flush that has written the
\* rows of its snapshot, C2 and C11).
Committed(m) ==
    /\ qstate[m] = "deleted"
    /\ ~InBatch(m)

TimerExpires ==
    /\ pc["tmr"] = "sleep"
    /\ slept >= BatchTimeout
    /\ ~bm_stop_event
    /\ slept' # slept \/ pc'["tmr"] # pc["tmr"]

\* C14: at every expiry of its period the timer, unless stopped, starts a
\* flush of whatever is in the batch, whatever the batch size and however
\* recently another flush happened.
C14_TimerFlushesEveryPeriod ==
    [][(TimerExpires /\ current_batch # <<>>) => fl'["tmr"].phase = "write"]_vars

\* C15: when close() returns, the stop signal is set and the sink
\* connection is released, whether or not its final flush succeeded.
C15_CloseReleasesSink ==
    [][(pc["cls"] # "closed" /\ pc'["cls"] = "closed")
          => bm_stop_event' /\ ~sf_init']_vars

\* C16: once close() has been called, no add appends entries to the batch.
C16_NoAddAfterClose ==
    [][pc["cls"] # "idle" => Len(current_batch') <= Len(current_batch)]_vars

\* C17: the Collector terminates only after BatchManager.close() has been
\* called and has returned.
C17_ShutdownCallsClose ==
    pc["col"] = "stopped" => pc["cls"] = "closed"

\* C18: once shutdown has begun the timer is stopped: the final flush of the
\* Collector never runs while a timer-triggered flush is in progress.
C18_NoTimerFlushDuringFinal ==
    ~(pc["col"] = "final" /\ Active("col") /\ Active("tmr"))

\* C19: a second call of Collector.shutdown writes no additional rows and
\* deletes no additional messages: the steps of its flush leave the sink and
\* the queue as they were.
C19_SecondShutdownNoEffect ==
    [][(pc["col"] = "final2" /\ fl'["col"] # fl["col"])
          => (sink' = sink /\ qstate' = qstate)]_vars

\* A worker runs only while the Collector waits for the results of the page
\* the worker belongs to; the Collector is then neither receiving nor adding
\* nor flushing.
WorkersInsideDispatch ==
    \A m \in Msgs :
        fut[m].st = "running"
            => /\ pc["col"] = "dispatch"
               /\ InPage(m)
               /\ ~Active("col")

\* C20: page-level barrier.  No worker runs outside the dispatch of its own
\* page, and a new page is received only when the previous page is gone: none
\* of its workers is running, its results were collected, and the add and
\* flush of the Collector for it have returned.
C20_PageBarrier ==
    [][/\ WorkersInsideDispatch'
       /\ (page' # page /\ page' # <<>>)
             => /\ page = <<>>
                /\ \A m \in Msgs : fut[m] = NoFut
                /\ ~Active("col")
                /\ pc["col"] = "poll"]_vars

\* A later page is being processed by its workers after an earlier page went
\* through the add and flush cycle.
C20_Witness ==
    /\ pc["col"] = "dispatch"
    /\ \E m \in Msgs : fut[m].st = "running"
    /\ sink # EmptyBag

\* C21: when the Collector has collected the results of a page, every
\* single-operation job of the page has an entry in the batch (its record was
\* handed to add_to_batch), so that the forced flush can write its row and
\* delete its message.
C21_PageHandedToBatch ==
    [][(pc["col"] = "dispatch" /\ pc'["col"] # "dispatch")
          => \A m \in Msgs : (InPage(m) /\ content[m] = 1) => InBatch(m)']_vars

\* The flush call of p ends by raising: its sink write failed, or one of its
\* deletes failed.
FlushRaised(p) ==
    /\ fl[p].phase # "idle"
    /\ fl'[p].phase = "idle"
    /\ ~FlushReturns(p)

\* C22: an exception of add_to_batch or of the forced page flush does not end
\* the Collector loop: the batch stays as it is, the lock of add_to_batch is
\* released and the Collector is back at the top of its loop.
C22_FlushErrorKeepsLoop ==
    [][(pc["col"] \in {"add", "page"} /\ FlushRaised("col"))
          => /\ pc'["col"] = "poll"
             /\ current_batch' = current_batch
             /\ batch_lock' = "free"]_vars

\* The Collector is at the top of its loop, not stopped, with the batch its
\* failed flush left behind.
C22_Witness ==
    /\ pc["col"] = "poll"
    /\ ~col_stop_event
    /\ ~Active("col")
    /\ current_batch # <<>>

\* C23: the Collector leaves the top of its loop only with a page to process
\* or because the stop event is set; a receive call that fails, after its
\* attempts are used up, leaves the Collector polling.
C23_ReceiveFailureKeepsLoop ==
    [][(pc["col"] = "poll" /\ ~col_stop_event')
          => /\ pc'["col"] \in {"poll", "dispatch"}
             /\ pc'["col"] = "dispatch" => page' # <<>>]_vars

\* A receive attempt failed (the delete of an unparseable message raised and
\* left it leased) and the Collector is polling, not stopped.
C23_Witness ==
    /\ pc["col"] = "poll"
    /\ ~col_stop_event
    /\ page = <<>>
    /\ \E m \in Msgs : IsPoison(m) /\ qstate[m] = "leased"

\* C24: the executor runs for a job only after the lease renewal of this
\* delivery has completed: a worker that has not renewed yet either renews or
\* raises without a result, and a result comes only from a renewed worker.
C24_RenewBeforeExecute ==
    [][\A m \in Msgs :
          /\ (fut[m].st = "running" /\ fut'[m] # fut[m])
                => (fut'[m] = Renewed \/ fut'[m] = Raised)
          /\ (fut[m].st # "done" /\ fut'[m].st = "done")
                => fut[m].st = "renewed"]_vars

\* The executor has run for a job and returned its record.
C24_Witness ==
    \E m \in Msgs : fut[m].st = "done" /\ fut[m].rec.ran

\* A step of a worker of the thread pool.
WorkerStep == \E m \in Msgs : fut[m].st \in {"running", "renewed"} /\ fut'[m] # fut[m]

C26_OutcomesAligned ==
    \A m \in Msgs :
        (fut[m].st = "done" /\ fut[m].rec.ran)
            => LET r == fut[m].rec
               IN  \A i \in 1..content[m] :
                      \/ i <= Len(r.data) /\ r.data[i] = Payload(i - 1)
                      \/ i <= Len(r.errors) /\ r.errors[i] = ErrV(i - 1)

\* C27: the sink holds at most one row per (job id, operation index), also
\* after the rows of a record were written a second time.
C27_OneRowPerKey ==
    \A r1 \in SinkRows :
        /\ CopiesIn(r1, sink) = 1
        /\ \A r2 \in SinkRows :
              (r1.message_id = r2.message_id /\ r1.request_index = r2.request_index)
                  => r1 = r2

\* C28: no queue message occurs twice in the batch.
C28_NoDuplicateHandle ==
    \A i, j \in 1..Len(current_batch) :
        i # j => current_batch[i].msg # current_batch[j].msg

\* The snapshot of p's flush holds a message that is deleted already or whose
\* lease has run out.
MeetsGone(p) ==
    \E k \in 1..Len(fl[p].snap) : qstate[fl[p].snap[k].msg] # "leased"

\* C29: the deletes of a flush that meet a message already deleted or expired
\* end without an error of their own: when no delete fails in transport the
\* flush ends there, every message of the snapshot is deleted and the batch
\* is cleared.
C29_GoneDeleteBenign ==
    [][\A p \in Procs :
          (fl[p].phase = "delete" /\ MeetsGone(p) /\ fl'[p].phase = "idle"
           /\ faults' = faults)
              => /\ \A k \in 1..Len(fl[p].snap) : qstate'[fl[p].snap[k].msg] = "deleted"
                 /\ current_batch' = <<>>
                 /\ time_since_flush' = 0]_vars

\* Two flushes wrote the same snapshot and both returned without a failed
\* delete: the later one met messages the earlier one had deleted.
C29_Witness ==
    /\ \A p \in Procs : ~Active(p)
    /\ faults = 0
    /\ current_batch = <<>>
    /\ \E row \in SinkRows : CopiesIn(row, sink) >= 2 /\ qstate[row.message_id] = "deleted"

\* C30: every job of a page that receive returned has at least one
\* operation.
C30_OperationsNonEmpty ==
    \A m \in Msgs : InPage(m) => content[m] >= 1

\* The Collector's flush call finds the batch empty and returns (flush
\* lines 61-62).
FlushOnEmpty ==
    /\ pc["col"] \in {"page", "final", "final2"}
    /\ fl["col"].phase = "idle"
    /\ current_batch = <<>>
    /\ pc'["col"] # pc["col"]

\* C31: flush on an empty batch is a no-op: no sink initialization or write,
\* no queue delete, the batch and the baseline unchanged, no flush begun.
C31_EmptyFlushNoOp ==
    [][FlushOnEmpty
          => /\ sf_init' = sf_init
             /\ sink' = sink
             /\ qstate' = qstate
             /\ current_batch' = <<>>
             /\ time_since_flush' = time_since_flush
             /\ fl' = fl]_vars

\* The final flush of the shutdown found the batch empty: the Collector has
\* stopped, the sink was never initialized or written and the baseline is as
\* old as it was.
C31_Witness ==
    /\ pc["col"] = "stopped"
    /\ current_batch = <<>>
    /\ ~sf_init
    /\ sink = EmptyBag
    /\ time_since_flush = BatchTimeout

\* C32: an entry leaves the batch only in the normal return of a flush whose
\* snapshot holds it, that is, only after its rows were written by that
\* flush.
C32_RemovedEntriesWritten ==
    [][\A k \in 1..Len(current_batch) :
          Len(current_batch') < k
              => \E p \in Procs :
                    /\ FlushReturns(p)
                    /\ \E j \in 1..Len(fl[p].snap) : fl[p].snap[j] = current_batch[k]]_vars

\* A delete of p's flush fails after its retries: the flush raises after its
\* sink write.
DeleteRaised(p) ==
    /\ fl[p].phase = "delete"
    /\ fl'[p].phase = "idle"
    /\ faults' # faults

\* C33: when the k-th delete of a flush fails, the handles before k are
\* deleted, the failing one and those after it are left as they were, and the
\* whole batch is retained with its baseline; a flush that begins takes the
\* whole batch, retained entries included, and builds their rows again.
C33_DeleteFailureKeepsBatch ==
    [][\A p \in Procs :
          /\ DeleteRaised(p)
                => /\ current_batch' = current_batch
                   /\ time_since_flush' = time_since_flush
                   /\ sink' = sink
                   /\ \E k \in 1..Len(fl[p].snap) :
                         /\ \A j \in 1..(k - 1) : qstate'[fl[p].snap[j].msg] = "deleted"
                         /\ \A m \in Msgs :
                               qstate'[m] # qstate[m]
                                   => \E j \in 1..(k - 1) : fl[p].snap[j].msg = m
          /\ (fl[p].phase = "idle" /\ fl'[p].phase = "write")
                => /\ fl'[p].snap = current_batch'
                   /\ fl'[p].rows = SnowflakeData(current_batch')]_vars

\* The second delete of a flush of two entries failed: the batch holds both
\* entries, the message of the first is deleted, the message of the second is
\* still leased.
C33_Witness ==
    /\ \A p \in Procs : ~Active(p)
    /\ Len(current_batch) = 2
    /\ current_batch[1].msg # current_batch[2].msg
    /\ qstate[current_batch[1].msg] = "deleted"
    /\ qstate[current_batch[2].msg] = "leased"
    /\ sink # EmptyBag

\* Every pair of the sequence joins a record with the queue message of the
\* record's own job.
PairsMatch(entries) ==
    \A k \in 1..Len(entries) : entries[k].rec.message_id = entries[k].msg

\* C34: every entry of the batch, and of the snapshot of every flush, pairs a
\* record with the queue message of the same job, and so does every pair
\* process_messages_batch returns for the page, whichever workers have
\* finished and whichever have raised.
C34_RecordMatchesHandle ==
    /\ PairsMatch(current_batch)
    /\ \A p \in Procs : PairsMatch(fl[p].snap)
    /\ PairsMatch(ProcessMessagesBatch(page))

\* The result of one job of a page was added while the worker of the other
\* job of the page raised.
C34_Witness ==
    /\ pc["col"] \in {"add", "page"}
    /\ \E m1, m2 \in Msgs :
          /\ m1 < m2
          /\ ~IsPoison(m1) /\ qstate[m1] = "leased" /\ ~InBatch(m1)
          /\ InBatch(m2)

\* C35: a worker whose lease renewal fails ends with a status=error record
\* for its job, produced without running the executor.
C35_RenewFailureErrorRecord ==
    [][\A m \in Msgs :
          (fut[m].st = "running" /\ fut'[m] # fut[m] /\ fut'[m] # Renewed)
              => /\ fut'[m].st = "done"
                 /\ fut'[m].rec.status = "error"
                 /\ fut'[m].rec.message_id = m
                 /\ ~fut'[m].rec.ran]_vars

\* The entries the step appends to the batch.
Appended == SubSeq(current_batch', Len(current_batch) + 1, Len(current_batch'))

\* C36: when the Collector collects a page in which a worker raised, the
\* message of that worker gets no entry and is not deleted, while every
\* worker of the page that returned a record gets its entry, and the add is
\* followed by the flush.
C36_RaisedWorkerSkipped ==
    [][(pc["col"] = "dispatch" /\ pc'["col"] # "dispatch")
          => /\ qstate' = qstate
             /\ \A m \in Msgs :
                   /\ (InPage(m) /\ fut[m].st = "raised")
                         => \A k \in 1..Len(Appended) : Appended[k].msg # m
                   /\ (InPage(m) /\ fut[m].st = "done")
                         => /\ \E k \in 1..Len(Appended) :
                                  Appended[k] = [rec |-> fut[m].rec, msg |-> m]
                            /\ pc'["col"] \in {"add", "page"}]_vars

\* Of two jobs, one is written and deleted by a flush while the other, whose
\* worker raised, has no entry and is still leased.
C36_Witness ==
    \E m1, m2 \in Msgs :
        /\ m1 # m2
        /\ ~IsPoison(m1) /\ qstate[m1] = "leased" /\ ~InBatch(m1) /\ fut[m1] = NoFut
        /\ qstate[m2] = "deleted"
        /\ \E row \in SinkRows : row.message_id = m2

\* The delete of an unparseable message fails inside a receive call: the
\* message was visible and is left leased.
PoisonDeleteFailed ==
    \E d \in Msgs : IsPoison(d) /\ qstate[d] = "visible" /\ qstate'[d] = "leased"

\* C37: when the delete of an unparseable message fails inside a receive
\* call, the parseable messages that were visible are leased by the abandoned
\* attempt and are not handed to the Collector: they are in no page, no
\* worker is started for them, and they are neither batched nor deleted by
\* the call.
C37_AbandonedAttemptLeases ==
    [][PoisonDeleteFailed
          => \A m \in Msgs :
                (~IsPoison(m) /\ qstate[m] = "visible")
                    => /\ qstate'[m] = "leased"
                       /\ \A k \in 1..Len(page') : page'[k] # m
                       /\ fut'[m] = NoFut
                       /\ current_batch' = current_batch]_vars

\* A receive call was abandoned at the failed delete of an unparseable
\* message: that message and the parseable message of the same attempt are
\* leased, and the parseable one never reached a worker or the batch.
C37_Witness ==
    /\ pc["col"] = "poll"
    /\ page = <<>>
    /\ faults = 0
    /\ current_batch = <<>>
    /\ sink = EmptyBag
    /\ \E d, m \in Msgs :
          /\ IsPoison(d) /\ qstate[d] = "leased"
          /\ ~IsPoison(m) /\ qstate[m] = "leased" /\ fut[m] = NoFut

\* C38: the final flush of Collector.shutdown always ends in the completed
\* shutdown; when its sink write fails, the batch is retained, no queue
\* message is deleted and nothing is written; a shutdown that has begun
\* completes.
C38_ShutdownSurvivesSinkFailure ==
    /\ [][/\ (pc["col"] = "final" /\ Active("col") /\ ~Active("col")')
                => pc'["col"] = "stopped"
          /\ (pc["col"] = "final" /\ WriteRaised("col"))
                => /\ pc'["col"] = "stopped"
                   /\ qstate' = qstate
                   /\ current_batch' = current_batch
                   /\ sink' = sink]_vars
    /\ (pc["col"] = "final") ~> (pc["col"] = "stopped")

\* The shutdown completed although its final flush failed at the sink: the
\* batch is retained, its messages are still leased, nothing was written.
C38_Witness ==
    /\ pc["col"] = "stopped"
    /\ \A p \in Procs : ~Active(p)
    /\ current_batch # <<>>
    /\ \A k \in 1..Len(current_batch) : qstate[current_batch[k].msg] = "leased"
    /\ sink = EmptyBag
    /\ faults = 0
====
